---- MODULE Spec2Model ----
(***************************************************************************)
(* The /affinities command of vc-useraffinities: score-to-size mapping,    *)
(* canvas sizing, the randomized disk packer and the avatar drawing, as    *)
(* in src/unnamed/part_000 (src/index.ts has the same packer and sizer).   *)
(*                                                                         *)
(* Numbers are pixels.  The program computes in floating point; the model  *)
(* computes in integers and therefore draws its inputs among the batches   *)
(* whose sizes are whole, even pixel counts, so that every division the    *)
(* code performs is exact.  Math.random() is a nondeterministic choice:    *)
(* the candidates the sampling loops can produce are the points of a       *)
(* lattice of step GridStep inside the region the code samples from.       *)
(***************************************************************************)
EXTENDS Integers, Sequences, FiniteSets, TLC

\* ---- bounds of the model ----
MaxItems == 2
MaxScore == 2
GridStep == 90
MaxUserCount == 60

\* ---- program constants ----
DefaultCount == 25
minSize == 120
maxSize == 240
edgePadding == 10
textSpace == 60
k == 30
neighbourTries == 100
uniformTries == 100
padding == 50
minWidth == 1000
minHeight == 700
hueRange == 300

VARIABLES
    count,          \* the count option (25 when absent): its floor
    countFrac,      \* the count option's fraction in halves: the option is count + countFrac / 2
    affinities,     \* the store's answer: a sequence of affinity scores
    reply,          \* bot message sent by execute, "" if none
    users,          \* users: sorted, sliced list of [ref, affinity] objects
    canvasWidth, canvasHeight,
    positions,      \* positions: the placement history of the layout pass
    tiers,          \* history variable: the return statement that produced each entry
    userPositions,  \* userPositions: [ref, affinity, x, y, size] objects
    pc,             \* position in execute
    size,           \* size of the item the layout loop is at
    pos,            \* value returned by the running/last generatePoissonDiskPosition
    tier,           \* history variable: which return statement produced pos
    cpc, tries, i, base,   \* locals of generatePoissonDiskPosition, step by step
    drew,           \* history variable: the running/last call has called Math.random()
    picked,         \* history variable: bases picked so far by the running call
    rejected,       \* history variable: candidates the running call drew and rejected
    task,           \* drawImage task per user: "loading", "drawn", "failed"
    ring,           \* hue stroked around each avatar
    loadedImages,
    exported        \* number of canvas.toBlob calls

vars == <<count, countFrac, affinities, reply, users, canvasWidth, canvasHeight, positions,
          tiers, userPositions, pc, size, pos, tier, cpc, tries, i, base, drew,
          picked, rejected, task, ring, loadedImages, exported>>

callVars == <<cpc, tries, i, base, drew, picked, rejected>>
drawVars == <<task, ring, loadedImages, exported>>

NoPos == [x |-> -1, y |-> -1]
NoHue == [num |-> 0, den |-> 0]

Min(a, b) == IF a < b THEN a ELSE b
Max(a, b) == IF a > b THEN a ELSE b
Sq(a) == a * a

\* ---------------------------------------------------------------------
\* users = affinities.map(...).sort((a, b) => b.affinity - a.affinity).slice(0, count)

\* objects created by the map callback: one per affinity, identified by ref
Mapped(affs) == [j \in 1..Len(affs) |-> [ref |-> j, affinity |-> affs[j]]]

\* sort with comparator b.affinity - a.affinity: descending, and stable, so
\* equal scores keep their order; rankDesc is the place the sort gives s[j]
rankDesc(s, j) ==
    Cardinality({m \in 1..Len(s) : \/ s[m].affinity > s[j].affinity
                                   \/ s[m].affinity = s[j].affinity /\ m <= j})

SortDesc(s) == [r \in 1..Len(s) |-> s[CHOOSE j \in 1..Len(s) : rankDesc(s, j) = r]]

\* slice(0, end): the end is truncated towards zero, and a negative end
\* counts from the end of the list
toInteger(whole, halves) == IF whole < 0 /\ halves = 1 THEN whole + 1 ELSE whole

Slice(s, n) == SubSeq(s, 1, IF n < 0 THEN Max(Len(s) + n, 0) ELSE Min(n, Len(s)))

SeqMin(s) == CHOOSE v \in {s[j] : j \in 1..Len(s)} : \A j \in 1..Len(s) : v <= s[j]
SeqMax(s) == CHOOSE v \in {s[j] : j \in 1..Len(s)} : \A j \in 1..Len(s) : v >= s[j]

Scores(us) == [j \in 1..Len(us) |-> us[j].affinity]
minAffinity == SeqMin(Scores(users))
maxAffinity == SeqMax(Scores(users))

\* getSize with the subtraction of the minimum left out
getSizeOfNoOffset(affinity, lo, hi) ==
    IF hi = lo THEN (minSize + maxSize) \div 2
    ELSE minSize + (affinity * (maxSize - minSize)) \div (hi - lo)

\* getSize, with the batch's extremes as parameters
getSizeOf(affinity, lo, hi) ==
    IF hi = lo THEN (minSize + maxSize) \div 2
    ELSE minSize + ((affinity - lo) * (maxSize - minSize)) \div (hi - lo)

getSize(affinity) == getSizeOf(affinity, minAffinity, maxAffinity)

\* the batches the integer model can represent exactly: every size a whole,
\* even number of pixels
WholeSizes(affs) ==
    LET lo == SeqMin(affs)
        hi == SeqMax(affs)
    IN \A j \in 1..Len(affs) :
         /\ hi # lo => ((affs[j] - lo) * (maxSize - minSize)) % (hi - lo) = 0
         /\ getSizeOf(affs[j], lo, hi) % 2 = 0

\* ---------------------------------------------------------------------
\* calculateCanvasSize

\* Math.ceil(Math.sqrt(userCount * 16 / 9)): least c with c * c >= userCount * 16 / 9
cols(userCount) ==
    CHOOSE c \in 1..(2 * userCount) :
        /\ 9 * c * c >= 16 * userCount
        /\ 9 * (c - 1) * (c - 1) < 16 * userCount

\* Math.ceil(userCount / cols)
ceilDiv(a, b) == (a + b - 1) \div b

\* rows with Math.floor in place of Math.ceil
rowsFloor(userCount) == userCount \div cols(userCount)

rows(userCount) == ceilDiv(userCount, cols(userCount))

calcWidth(userCount, avatarSize) ==
    Max(minWidth, cols(userCount) * (avatarSize + padding) + padding)
calcHeight(userCount, avatarSize) ==
    Max(minHeight, rows(userCount) * (avatarSize + textSpace + padding) + padding)

avgSize == (minSize + maxSize) \div 2

\* ---------------------------------------------------------------------
\* generatePoissonDiskPosition

minDist(sz) == (sz * 3) \div 2

\* minAllowed = (pos.size + size) / 2 + (minDist - size)
minAllowed(p, sz) == (p.size + sz) \div 2 + (minDist(sz) - sz)

\* Math.sqrt(dx * dx + dy * dy) < minAllowed, compared on the squares
tooClose(p, sz, x, y) == Sq(p.x - x) + Sq(p.y - y) < Sq(minAllowed(p, sz))

isValid(existingPositions, cw, ch, sz, x, y) ==
    IF \/ x < edgePadding + sz \div 2
       \/ x > cw - edgePadding - sz \div 2
       \/ y < edgePadding + sz \div 2
       \/ y > ch - textSpace - edgePadding - sz \div 2
    THEN FALSE
    ELSE ~ \E j \in 1..Len(existingPositions) :
               tooClose(existingPositions[j], sz, x, y)

\* the empty-history branch without the radius
centrePositionNoRadius(cw, ch, sz) == [x |-> cw \div 2, y |-> ch \div 2]

\* return of the empty-history branch
centrePosition(cw, ch, sz) ==
    [x |-> cw \div 2 - sz \div 2, y |-> ch \div 2 - sz \div 2]

\* return of the last statement
fallbackPosition(sz) ==
    [x |-> edgePadding + sz \div 2, y |-> edgePadding + sz \div 2]

\* base + (cos(angle), sin(angle)) * radius, angle in [0, 2 pi),
\* radius in [minDist, 2 * minDist): the annulus around the base's stored point
Offsets(sz) ==
    LET n == (2 * minDist(sz)) \div GridStep
    IN {j * GridStep : j \in (-n)..n}

neighbourCandidates(b, sz) ==
    {[x |-> b.x + dx, y |-> b.y + dy] : <<dx, dy>> \in
        {d \in Offsets(sz) \X Offsets(sz) :
            /\ Sq(d[1]) + Sq(d[2]) >= Sq(minDist(sz))
            /\ Sq(d[1]) + Sq(d[2]) < Sq(2 * minDist(sz))}}

\* Math.random() * extent + origin, Math.random() in [0, 1)
uniformAxis(extent, origin) ==
    {origin + j * GridStep : j \in {n \in 0..(Max(extent, 1) \div GridStep) : n * GridStep < extent}}

uniformCandidates(cw, ch, sz) ==
    {[x |-> x, y |-> y] :
        x \in uniformAxis(cw - sz - edgePadding * 2, edgePadding + sz \div 2),
        y \in uniformAxis(ch - sz - textSpace - edgePadding * 2, edgePadding + sz \div 2)}

\* every value one call can return, with the return statement that produces it:
\* 1 empty history, 2 neighbour-seeded loop, 3 uniform loop, 4 last statement.
\* A later statement is reached only when every candidate drawn before it was
\* rejected, which the random draws allow exactly when a rejected candidate exists.
generatePoissonDiskPosition(existingPositions, cw, ch, sz) ==
    IF Len(existingPositions) = 0
    THEN {[p |-> centrePosition(cw, ch, sz), tier |-> 1]}
    ELSE LET near == UNION {neighbourCandidates(existingPositions[b], sz) :
                                b \in 1..Len(existingPositions)}
             unif == uniformCandidates(cw, ch, sz)
             ok(c) == isValid(existingPositions, cw, ch, sz, c.x, c.y)
         IN {[p |-> c, tier |-> 2] : c \in {c \in near : ok(c)}}
            \cup (IF \E c \in near : ~ok(c)
                  THEN {[p |-> c, tier |-> 3] : c \in {c \in unif : ok(c)}}
                       \cup (IF \E c \in unif : ~ok(c)
                             THEN {[p |-> fallbackPosition(sz), tier |-> 4]}
                             ELSE {})
                  ELSE {})

\* ---------------------------------------------------------------------
\* drawImage

\* centerX = user.x + user.size / 2, centerY = user.y + user.size / 2
centerOf(u) == [x |-> u.x + u.size \div 2, y |-> u.y + u.size \div 2]
radiusOf(u) == u.size \div 2

\* users.indexOf(user): strict equality on objects is identity; 0-based, -1 if absent
indexOf(us, obj) ==
    IF \E j \in 1..Len(us) : us[j].ref = obj.ref
    THEN (CHOOSE j \in 1..Len(us) : us[j].ref = obj.ref) - 1
    ELSE -1

\* hue = (users.indexOf(user) / users.length) * 300, kept as a fraction
hueOf(us, obj) == [num |-> indexOf(us, obj) * hueRange, den |-> Len(us)]

\* ---------------------------------------------------------------------
\* Specification of one execution of the command

Batches ==
    {a \in UNION {[1..n -> 0..MaxScore] : n \in 1..MaxItems} : WholeSizes(a)}

\* the state when execute is entered, but for the command's inputs
Fresh ==
    /\ reply = ""
    /\ users = <<>>
    /\ canvasWidth = 0
    /\ canvasHeight = 0
    /\ positions = <<>>
    /\ tiers = <<>>
    /\ userPositions = <<>>
    /\ pc = "start"
    /\ size = 0
    /\ pos = NoPos
    /\ tier = 0
    /\ cpc = "idle"
    /\ tries = 0
    /\ i = 0
    /\ base = 0
    /\ drew = FALSE
    /\ picked = 0
    /\ rejected = 0
    /\ task = <<>>
    /\ ring = <<>>
    /\ loadedImages = 0
    /\ exported = 0

Init ==
    /\ count = DefaultCount
    /\ countFrac = 0
    /\ affinities \in Batches
    /\ Fresh

inputVars == <<count, countFrac, affinities>>

noCountMessage == "The count must be 1 or higher!"
noAffinitiesMessage == "No affinities found."
noUsersMessage == "No valid users found in affinities."

\* execute up to the layout loop: if (!count), map, sort, slice, canvas size
Start ==
    /\ pc = "start"
    /\ IF count = 0 /\ countFrac = 0
       THEN /\ reply' = noCountMessage
            /\ pc' = "done"
            /\ UNCHANGED <<users, canvasWidth, canvasHeight>>
       ELSE IF Len(affinities) = 0
       THEN /\ reply' = noAffinitiesMessage
            /\ pc' = "done"
            /\ UNCHANGED <<users, canvasWidth, canvasHeight>>
       ELSE /\ users' = Slice(SortDesc(Mapped(affinities)), toInteger(count, countFrac))
            /\ IF Len(users') = 0
               THEN /\ reply' = noUsersMessage
                    /\ pc' = "done"
                    /\ UNCHANGED <<canvasWidth, canvasHeight>>
               ELSE /\ canvasWidth' = calcWidth(Len(users'), avgSize)
                    /\ canvasHeight' = calcHeight(Len(users'), avgSize)
                    /\ pc' = "layout"
                    /\ UNCHANGED reply
    /\ UNCHANGED <<positions, tiers, userPositions, size, pos, tier>>
    /\ UNCHANGED inputVars
    /\ UNCHANGED callVars
    /\ UNCHANGED drawVars

\* layout loop body: const size = getSize(user.affinity)
GetSize ==
    /\ pc = "layout"
    /\ Len(positions) < Len(users)
    /\ size' = getSize(users[Len(positions) + 1].affinity)
    /\ pc' = "call"
    /\ UNCHANGED <<reply, users, canvasWidth, canvasHeight, positions, tiers,
                   userPositions, pos, tier>>
    /\ UNCHANGED inputVars
    /\ UNCHANGED callVars
    /\ UNCHANGED drawVars

\* layout loop body: const pos = generatePoissonDiskPosition(positions, ..., size)
PlaceCall ==
    /\ pc = "call"
    /\ \E r \in generatePoissonDiskPosition(positions, canvasWidth, canvasHeight, size) :
          /\ pos' = r.p
          /\ tier' = r.tier
          /\ drew' = (r.tier # 1)
    /\ pc' = "push"
    /\ UNCHANGED <<reply, users, canvasWidth, canvasHeight, positions, tiers,
                   userPositions, size>>
    /\ UNCHANGED inputVars
    /\ UNCHANGED <<cpc, tries, i, base, picked, rejected>>
    /\ UNCHANGED drawVars

\* unshift in place of push
unshifted(list, p, sz) == <<[x |-> p.x, y |-> p.y, size |-> sz]>> \o list

\* positions.push({ x: pos.x, y: pos.y, size })
pushed(list, p, sz) == Append(list, [x |-> p.x, y |-> p.y, size |-> sz])

\* { ...user, x: pos.x, y: pos.y, size }: a new object
spread(user, fresh, p, sz) ==
    [ref |-> fresh, affinity |-> user.affinity, x |-> p.x, y |-> p.y, size |-> sz]

\* layout loop body: push, and the map callback's return
PlacePush ==
    /\ pc = "push"
    /\ positions' = pushed(positions, pos, size)
    /\ tiers' = Append(tiers, tier)
    /\ userPositions' = Append(userPositions,
           spread(users[Len(positions) + 1], Len(affinities) + Len(positions) + 1,
                  pos, size))
    /\ pc' = IF Len(positions') = Len(users) THEN "draw" ELSE "layout"
    /\ UNCHANGED <<reply, users, canvasWidth, canvasHeight, size, pos, tier>>
    /\ UNCHANGED inputVars
    /\ UNCHANGED callVars
    /\ UNCHANGED drawVars

\* loadedImages = 0; userPositions.forEach(drawImage): every task runs to its await
BeginDraw ==
    /\ pc = "draw"
    /\ task' = [j \in 1..Len(userPositions) |-> "loading"]
    /\ ring' = [j \in 1..Len(userPositions) |-> NoHue]
    /\ loadedImages' = 0
    /\ pc' = "await"
    /\ UNCHANGED <<reply, users, canvasWidth, canvasHeight, positions, tiers,
                   userPositions, size, pos, tier, exported>>
    /\ UNCHANGED inputVars
    /\ UNCHANGED callVars

\* finally { loadedImages++; if (loadedImages === totalImages) canvas.toBlob(...) }
Settle ==
    /\ loadedImages' = loadedImages + 1
    /\ exported' = IF loadedImages' = Len(userPositions) THEN exported + 1 ELSE exported
    /\ pc' = IF \A j \in 1..Len(task') : task'[j] # "loading" THEN "done" ELSE pc

\* the avatar loaded: clip, draw, stroke the ring
ImageLoaded(j) ==
    /\ pc = "await"
    /\ task[j] = "loading"
    /\ task' = [task EXCEPT ![j] = "drawn"]
    /\ ring' = [ring EXCEPT ![j] = hueOf(users, userPositions[j])]
    /\ Settle
    /\ UNCHANGED <<reply, users, canvasWidth, canvasHeight, positions, tiers,
                   userPositions, size, pos, tier>>
    /\ UNCHANGED inputVars
    /\ UNCHANGED callVars

\* a rejected load that skips the finally block
ImageFailedNoCount(j) ==
    /\ pc = "await"
    /\ task[j] = "loading"
    /\ task' = [task EXCEPT ![j] = "failed"]
    /\ ring' = ring
    /\ pc' = IF \A m \in 1..Len(task') : task'[m] # "loading" THEN "done" ELSE pc
    /\ UNCHANGED <<reply, users, canvasWidth, canvasHeight, positions, tiers,
                   userPositions, size, pos, tier, loadedImages, exported>>
    /\ UNCHANGED inputVars
    /\ UNCHANGED callVars

\* loadImage rejected: catch { }
ImageFailed(j) ==
    /\ pc = "await"
    /\ task[j] = "loading"
    /\ task' = [task EXCEPT ![j] = "failed"]
    /\ ring' = ring
    /\ Settle
    /\ UNCHANGED <<reply, users, canvasWidth, canvasHeight, positions, tiers,
                   userPositions, size, pos, tier>>
    /\ UNCHANGED inputVars
    /\ UNCHANGED callVars

Next ==
    \/ Start
    \/ GetSize
    \/ PlaceCall
    \/ PlacePush
    \/ BeginDraw
    \/ \E j \in 1..Len(task) : ImageLoaded(j)
    \/ \E j \in 1..Len(task) : ImageFailed(j)

Spec == Init /\ [][Next]_vars

\* ---------------------------------------------------------------------
\* Specification of one call of generatePoissonDiskPosition, statement by
\* statement, made by the layout loop for the item after the history so far

\* the histories the call starts from: the first item at the centre, the second
\* either at the value of the last return statement or at a neighbour-seeded one
laterEntries(h, cw, ch, sz) ==
    LET rs == generatePoissonDiskPosition(h, cw, ch, sz)
        seeded == {r \in rs : r.tier = 2}
    IN {r \in rs : r.tier = 4}
       \cup (IF seeded = {} THEN {} ELSE {CHOOSE r \in seeded : TRUE})

RECURSIVE histories(_, _, _, _, _)
histories(us, lo, hi, cw, ch) ==
    IF Len(us) = 0 THEN {[h |-> <<>>, t |-> <<>>]}
    ELSE LET sz == getSizeOf(us[Len(us)].affinity, lo, hi)
         IN UNION {{[h |-> pushed(b.h, r.p, sz), t |-> Append(b.t, r.tier)] :
                       r \in IF Len(us) = 1
                             THEN generatePoissonDiskPosition(b.h, cw, ch, sz)
                             ELSE laterEntries(b.h, cw, ch, sz)} :
                   b \in histories(SubSeq(us, 1, Len(us) - 1), lo, hi, cw, ch)}

\* the batches the call is followed on: already in descending order, equal
\* scores or scores spanning 0..MaxScore
CallBatches ==
    {a \in Batches : /\ SortDesc(Mapped(a)) = Mapped(a)
                     /\ SeqMin(a) = 0
                     /\ SeqMax(a) \in {0, MaxScore}}

InitCall ==
    /\ count = DefaultCount
    /\ countFrac = 0
    /\ reply = ""
    /\ affinities \in CallBatches
    /\ users = Slice(SortDesc(Mapped(affinities)), DefaultCount)
    /\ canvasWidth = calcWidth(Len(users), avgSize)
    /\ canvasHeight = calcHeight(Len(users), avgSize)
    /\ \E n \in 0..(Len(users) - 1) :
         \E b \in histories(SubSeq(users, 1, n), minAffinity, maxAffinity,
                            canvasWidth, canvasHeight) :
            /\ positions = b.h
            /\ tiers = b.t
            /\ userPositions = [j \in 1..n |->
                   spread(users[j], Len(affinities) + j, b.h[j], b.h[j].size)]
            /\ size = getSize(users[n + 1].affinity)
    /\ pc = "call"
    /\ pos = NoPos
    /\ tier = 0
    /\ cpc = "entry"
    /\ tries = 0
    /\ i = 0
    /\ base = 0
    /\ drew = FALSE
    /\ picked = 0
    /\ rejected = 0
    /\ task = <<>>
    /\ ring = <<>>
    /\ loadedImages = 0
    /\ exported = 0

execVars == <<count, countFrac, affinities, reply, users, canvasWidth, canvasHeight, positions,
              tiers, userPositions, pc, size>>

\* return { x, y }: the call's locals end with it
return(p, t) ==
    /\ pos' = p
    /\ tier' = t
    /\ cpc' = "done"
    /\ tries' = 0
    /\ i' = 0
    /\ base' = 0
    /\ picked' = 0
    /\ rejected' = 0

\* if (!existingPositions.length) return centre
Enter ==
    /\ cpc = "entry"
    /\ IF Len(positions) = 0
       THEN return(centrePosition(canvasWidth, canvasHeight, size), 1)
       ELSE /\ cpc' = "outer"
            /\ tries' = 0
            /\ UNCHANGED <<pos, tier, i, base, picked, rejected>>
    /\ UNCHANGED drew
    /\ UNCHANGED execVars
    /\ UNCHANGED drawVars

\* the outer loop with <= in place of <
PickBaseOffByOne ==
    /\ cpc = "outer"
    /\ tries <= neighbourTries
    /\ \E b \in 1..Len(positions) : base' = b
    /\ i' = 0
    /\ drew' = TRUE
    /\ picked' = picked + 1
    /\ cpc' = "inner"
    /\ UNCHANGED <<pos, tier, tries, rejected>>
    /\ UNCHANGED execVars
    /\ UNCHANGED drawVars

\* for (tries < 100): base = existingPositions[floor(random * length)]
PickBase ==
    /\ cpc = "outer"
    /\ tries < neighbourTries
    /\ \E b \in 1..Len(positions) : base' = b
    /\ i' = 0
    /\ drew' = TRUE
    /\ picked' = picked + 1
    /\ cpc' = "inner"
    /\ UNCHANGED <<pos, tier, tries, rejected>>
    /\ UNCHANGED execVars
    /\ UNCHANGED drawVars

\* the inner loop returning its candidate without the isValid test
TryNeighbourNoCheck ==
    /\ cpc = "inner"
    /\ i < k
    /\ \E c \in neighbourCandidates(positions[base], size) : return(c, 2)
    /\ drew' = TRUE
    /\ UNCHANGED execVars
    /\ UNCHANGED drawVars

\* for (i < k): angle, radius, x, y; if (isValid(x, y)) return { x, y }
\* (the drawn candidate is either valid, and returned, or not, and i++)
TryNeighbour ==
    /\ cpc = "inner"
    /\ i < k
    /\ \/ \E c \in neighbourCandidates(positions[base], size) :
             /\ isValid(positions, canvasWidth, canvasHeight, size, c.x, c.y)
             /\ return(c, 2)
       \/ /\ \E c \in neighbourCandidates(positions[base], size) :
                ~isValid(positions, canvasWidth, canvasHeight, size, c.x, c.y)
          /\ i' = i + 1
          /\ rejected' = rejected + 1
          /\ UNCHANGED <<pos, tier, cpc, tries, base, picked>>
    /\ drew' = TRUE
    /\ UNCHANGED execVars
    /\ UNCHANGED drawVars

\* the outer loop without its tries++
NextBaseStuck ==
    /\ cpc = "inner"
    /\ i >= k
    /\ cpc' = "outer"
    /\ UNCHANGED <<pos, tier, tries, i, base, drew, picked, rejected>>
    /\ UNCHANGED execVars
    /\ UNCHANGED drawVars

\* inner loop over: tries++
NextBase ==
    /\ cpc = "inner"
    /\ i >= k
    /\ tries' = tries + 1
    /\ cpc' = "outer"
    /\ UNCHANGED <<pos, tier, i, base, drew, picked, rejected>>
    /\ UNCHANGED execVars
    /\ UNCHANGED drawVars

\* neighbour loop over: the uniform loop starts
StartUniform ==
    /\ cpc = "outer"
    /\ tries >= neighbourTries
    /\ tries' = 0
    /\ cpc' = "uniform"
    /\ UNCHANGED <<pos, tier, i, base, drew, picked, rejected>>
    /\ UNCHANGED execVars
    /\ UNCHANGED drawVars

\* for (tries < 100): x, y uniform; if (isValid(x, y)) return { x, y }
TryUniform ==
    /\ cpc = "uniform"
    /\ tries < uniformTries
    /\ \/ \E c \in uniformCandidates(canvasWidth, canvasHeight, size) :
             /\ isValid(positions, canvasWidth, canvasHeight, size, c.x, c.y)
             /\ return(c, 3)
       \/ /\ \E c \in uniformCandidates(canvasWidth, canvasHeight, size) :
                ~isValid(positions, canvasWidth, canvasHeight, size, c.x, c.y)
          /\ tries' = tries + 1
          /\ rejected' = rejected + 1
          /\ UNCHANGED <<pos, tier, cpc, i, base, picked>>
    /\ drew' = TRUE
    /\ UNCHANGED execVars
    /\ UNCHANGED drawVars

\* return { x: edgePadding + size / 2, y: edgePadding + size / 2 }
Fallback ==
    /\ cpc = "uniform"
    /\ tries >= uniformTries
    /\ return(fallbackPosition(size), 4)
    /\ UNCHANGED drew
    /\ UNCHANGED execVars
    /\ UNCHANGED drawVars

NextCall ==
    \/ Enter
    \/ PickBase
    \/ TryNeighbour
    \/ NextBase
    \/ StartUniform
    \/ TryUniform
    \/ Fallback

SpecCall == InitCall /\ [][NextCall]_vars

\* the statement-by-statement call returns what the one-step call returns
CallAgrees ==
    cpc = "done" =>
        [p |-> pos, tier |-> tier] \in
            generatePoissonDiskPosition(positions, canvasWidth, canvasHeight, size)

\* ---------------------------------------------------------------------
\* Specification of getSize over wider batches: execute up to the first size

MaxWideScore == 6
MaxWideItems == 3

WideBatches ==
    {a \in UNION {[1..n -> 0..MaxWideScore] : n \in 1..MaxWideItems} : WholeSizes(a)}

InitSize ==
    /\ count = DefaultCount
    /\ countFrac = 0
    /\ affinities \in WideBatches
    /\ Fresh

NextSize ==
    \/ Start
    \/ GetSize

SpecSize == InitSize /\ [][NextSize]_vars

\* ---------------------------------------------------------------------
\* Specification of calculateCanvasSize over the user counts: execute up to
\* the canvas, on a store of MaxUserCount equal affinities cut by the count option

InitSizer ==
    /\ count \in 1..MaxUserCount
    /\ countFrac = 0
    /\ affinities = [j \in 1..MaxUserCount |-> 0]
    /\ Fresh

NextSizer == Start

SpecSizer == InitSizer /\ [][NextSizer]_vars

\* ---------------------------------------------------------------------
\* Properties

\* squared distance between the centres of the discs drawn for two entries
centreDist2(a, b) ==
    Sq(centerOf(a).x - centerOf(b).x) + Sq(centerOf(a).y - centerOf(b).y)

\* pairs of history entries both returned by the first three return statements
sampledPairs ==
    {<<a, b>> \in (1..Len(positions)) \X (1..Len(positions)) :
        a < b /\ tiers[a] # 4 /\ tiers[b] # 4}

\* C1: no two discs placed by the first three tiers overlap: the distance of
\* their drawn centres is at least the sum of their radii.
NoOverlap ==
    \A pr \in sampledPairs :
        centreDist2(positions[pr[1]], positions[pr[2]])
            >= Sq(radiusOf(positions[pr[1]]) + radiusOf(positions[pr[2]]))

\* C2: any two discs placed by the first three tiers have a centre distance of
\* at least r_old + 1.5 * r_new, r_new the radius of the later one
\* (compared on four times the lengths, squared).
RankAwareSeparation ==
    \A pr \in sampledPairs :
        16 * centreDist2(positions[pr[1]], positions[pr[2]])
            >= Sq(2 * positions[pr[1]].size + 3 * positions[pr[2]].size)

\* C3: the centre of every disc placed by the first three tiers lies in the
\* placeable rectangle shrunk by the radius.
PlaceableBound ==
    \A j \in 1..Len(positions) :
        tiers[j] # 4 =>
            LET c == centerOf(positions[j])
                r == radiusOf(positions[j])
            IN /\ c.x >= edgePadding + r
               /\ c.x <= canvasWidth - edgePadding - r
               /\ c.y >= edgePadding + r
               /\ c.y <= canvasHeight - textSpace - edgePadding - r

\* candidates tested so far by the running call
attemptsMade ==
    CASE cpc = "outer" -> tries * k
      [] cpc = "inner" -> tries * k + i
      [] cpc = "uniform" -> neighbourTries * k + tries
      [] OTHER -> 0

\* statements the running call can still execute at most: every iteration of
\* the neighbour loop is a base, k candidates and the loop step
stepsLeft ==
    LET uniformPass == uniformTries + 1
        perBase == k + 2
    IN CASE cpc = "entry" -> neighbourTries * perBase + 2 + uniformPass
         [] cpc = "outer" -> (neighbourTries - tries) * perBase + 1 + uniformPass
         [] cpc = "inner" -> (neighbourTries - tries) * perBase - 1 - i + 1 + uniformPass
         [] cpc = "uniform" -> (uniformTries - tries) + 1
         [] OTHER -> 0

\* C4: a call never fails: it never tests more than a fixed number of
\* candidates, every statement brings the return nearer (so no loop retries
\* without bound), a call that has not returned can always go on (no error
\* outcome), and what it returns is a coordinate pair.
NeverFails ==
    /\ [](attemptsMade <= neighbourTries * k + uniformTries)
    /\ [](stepsLeft >= 0)
    /\ [][stepsLeft' < stepsLeft]_vars
    /\ [](cpc # "done" => ENABLED NextCall)
    /\ [](cpc = "done" => tier \in 1..4 /\ pos.x \in Nat /\ pos.y \in Nat)

NeverFailsWitness ==
    cpc = "done" /\ tier = 4 /\ Len(positions) > 0

\* C5: with an empty history the call returns the canvas centre minus the
\* radius on both axes and calls Math.random() not once.
EmptyHistoryCentre ==
    (cpc = "done" /\ Len(positions) = 0) =>
        /\ 2 * pos.x + size = canvasWidth
        /\ 2 * pos.y + size = canvasHeight
        /\ ~drew

EmptyHistoryCentreWitness ==
    cpc = "done" /\ Len(positions) = 0 /\ tier = 1 /\ size = maxSize

\* C6: the value of the last return statement is (edgePadding, edgePadding).
FallbackIsCorner ==
    (pc = "push" /\ tier = 4) => pos = [x |-> edgePadding, y |-> edgePadding]

\* C7: the history is append-only: only the push changes it, by appending the
\* returned coordinate with the item's size; after i items it has i entries
\* and entry j carries the size of the j-th user in descending score order.
AppendOnly ==
    /\ [][IF pc = "push"
          THEN /\ Len(positions') = Len(positions) + 1
               /\ SubSeq(positions', 1, Len(positions)) = positions
               /\ positions'[Len(positions')] = [x |-> pos.x, y |-> pos.y, size |-> size]
          ELSE positions' = positions]_vars
    /\ [](/\ Len(positions) = Len(userPositions)
          /\ Len(positions) <= Len(users)
          /\ pc \in {"draw", "await"} => Len(positions) = Len(users)
          /\ \A j \in 1..Len(positions) :
                /\ positions[j].size = getSize(users[j].affinity)
                /\ j > 1 => users[j - 1].affinity >= users[j].affinity)

AppendOnlyWitness ==
    pc \in {"layout", "draw"} /\ Len(positions) >= 2 /\ positions[1] # positions[2]

\* C8: sizes interpolate the scores linearly between minSize and maxSize (the
\* lowest score gets minSize, the highest maxSize), and a batch of equal scores
\* gets the midpoint.
ScoreToSize ==
    pc \in {"layout", "call"} =>
        /\ \A j \in 1..Len(users) :
              LET a == users[j].affinity
                  s == getSize(a)
              IN IF maxAffinity > minAffinity
                 THEN /\ (s - minSize) * (maxAffinity - minAffinity)
                            = (a - minAffinity) * (maxSize - minSize)
                      /\ a = minAffinity => s = minSize
                      /\ a = maxAffinity => s = maxSize
                      /\ 2 * a = minAffinity + maxAffinity => 2 * s = minSize + maxSize
                      /\ s >= minSize /\ s <= maxSize
                 ELSE 2 * s = minSize + maxSize
        /\ pc = "call" => size = IF maxAffinity > minAffinity THEN maxSize
                                 ELSE avgSize

ScoreToSizeWitness ==
    /\ pc = "call"
    /\ size = maxSize
    /\ \E j \in 1..Len(users) :
          /\ 2 * users[j].affinity = minAffinity + maxAffinity
          /\ 2 * getSize(users[j].affinity) = minSize + maxSize

\* C9: the sizer's grid holds every item: cols * rows >= item count.
GridCapacity ==
    pc = "layout" =>
        /\ cols(Len(users)) * rows(Len(users)) >= Len(users)
        /\ canvasWidth >= cols(Len(users)) * (avgSize + padding) + padding
        /\ canvasHeight >= rows(Len(users)) * (avgSize + textSpace + padding) + padding

GridCapacityWitness ==
    pc = "layout" /\ Len(users) > DefaultCount /\ canvasWidth > minWidth

\* C10: the ring of the item at 0-based rank i of N has hue (i / N) * 300.
RingHueByRank ==
    \A j \in 1..Len(task) :
        task[j] = "drawn" =>
            /\ ring[j].den = Len(users)
            /\ ring[j].num = (j - 1) * hueRange

\* ---------------------------------------------------------------------
\* Specification of the command over the values of the count option: whole
\* and half counts from -MaxCount to MaxCount + 1/2

MaxCount == 2

InitCount ==
    /\ count \in (-MaxCount)..MaxCount
    /\ countFrac \in {0, 1}
    /\ affinities \in Batches
    /\ Fresh

SpecCount == InitCount /\ [][Next]_vars

\* C11: a count option below 1 is answered with the count message and nothing
\* is laid out, drawn or exported; with a count of 1 or more at most count
\* users are laid out.
CountValidation ==
    /\ (count < 1 /\ pc # "start") =>
          /\ reply = noCountMessage
          /\ pc = "done"
          /\ positions = <<>>
          /\ task = <<>>
          /\ exported = 0
    /\ count >= 1 => Len(positions) <= count

\* C12, as stated: a call picks at most 30 bases and tests at most 30
\* candidates per base, 900 in all, before the uniform pass of at most 100.
AttemptBudgetThirty ==
    /\ picked <= 30
    /\ i <= 30
    /\ cpc \in {"outer", "inner"} => rejected <= 900
    /\ cpc = "uniform" => tries <= 100 /\ rejected <= 900 + tries

\* C12, amended: a call picks at most neighbourTries = 100 bases and tests at
\* most k = 30 candidates per base, 3000 in all, before the uniform pass of
\* at most uniformTries = 100 candidates, which starts only when all of them
\* were rejected.
AttemptBudget ==
    /\ picked <= neighbourTries
    /\ i <= k
    /\ cpc \in {"outer", "inner"} => rejected <= picked * k
    /\ cpc = "uniform" =>
          /\ picked = neighbourTries
          /\ tries <= uniformTries
          /\ rejected = neighbourTries * k + tries

AttemptBudgetWitness ==
    cpc = "uniform" /\ tries = 0 /\ picked = neighbourTries /\ rejected = neighbourTries * k

\* the step on which the running call returns
returns == cpc # "done" /\ cpc' = "done"

\* C13: a call is an ordered, short-circuiting cascade. Every candidate drawn
\* before the current one was rejected; a neighbour-seeded or uniform result
\* is returned by the loop that drew it and satisfies isValid; the uniform
\* pass starts only from the exhausted neighbour pass, with all of its
\* neighbourTries * k candidates rejected, and never goes back; the fixed
\* fallback is returned only after all uniformTries uniform candidates were
\* rejected as well.
CascadeOrder ==
    /\ [](cpc = "done" /\ tier \in {2, 3} =>
             isValid(positions, canvasWidth, canvasHeight, size, pos.x, pos.y))
    /\ [](cpc = "inner" => picked = tries + 1 /\ rejected = tries * k + i)
    /\ [](cpc = "outer" => picked = tries /\ rejected = tries * k)
    /\ [](cpc = "uniform" => rejected = neighbourTries * k + tries)
    /\ [][returns =>
             CASE tier' = 1 -> cpc = "entry" /\ Len(positions) = 0
               [] tier' = 2 -> /\ cpc = "inner"
                               /\ pos' \in neighbourCandidates(positions[base], size)
               [] tier' = 3 -> /\ cpc = "uniform"
                               /\ pos' \in uniformCandidates(canvasWidth, canvasHeight, size)
               [] tier' = 4 -> /\ cpc = "uniform"
                               /\ tries = uniformTries
                               /\ rejected = neighbourTries * k + uniformTries
                               /\ pos' = fallbackPosition(size)
               [] OTHER -> FALSE]_vars
    /\ [][cpc # "uniform" /\ cpc' = "uniform" =>
             cpc = "outer" /\ tries = neighbourTries /\ rejected = neighbourTries * k]_vars
    /\ [][cpc = "uniform" => cpc' \in {"uniform", "done"}]_vars

CascadeOrderWitness ==
    cpc = "done" /\ tier = 3 /\ Len(positions) > 0

\* ---------------------------------------------------------------------
\* Specification of the drawImage tasks, started on a finished layout

MaxDrawItems == 4

\* the batches the tasks are followed on: the tasks read no score
DrawBatches == {[j \in 1..n |-> 0] : n \in 1..MaxDrawItems}

\* the state after the layout loop's last push
InitDraw ==
    /\ count = DefaultCount
    /\ countFrac = 0
    /\ reply = ""
    /\ affinities \in DrawBatches
    /\ users = Slice(SortDesc(Mapped(affinities)), DefaultCount)
    /\ canvasWidth = calcWidth(Len(users), avgSize)
    /\ canvasHeight = calcHeight(Len(users), avgSize)
    /\ \E b \in histories(users, minAffinity, maxAffinity, canvasWidth, canvasHeight) :
          /\ positions = b.h
          /\ tiers = b.t
          /\ userPositions = [j \in 1..Len(users) |->
                 spread(users[j], Len(affinities) + j, b.h[j], b.h[j].size)]
          /\ size = b.h[Len(users)].size
          /\ pos = [x |-> b.h[Len(users)].x, y |-> b.h[Len(users)].y]
          /\ tier = b.t[Len(users)]
          /\ drew = (b.t[Len(users)] # 1)
    /\ pc = "draw"
    /\ cpc = "idle"
    /\ tries = 0
    /\ i = 0
    /\ base = 0
    /\ picked = 0
    /\ rejected = 0
    /\ task = <<>>
    /\ ring = <<>>
    /\ loadedImages = 0
    /\ exported = 0

NextDraw ==
    \/ BeginDraw
    \/ \E j \in 1..Len(task) : ImageLoaded(j)
    \/ \E j \in 1..Len(task) : ImageFailed(j)

SpecDraw == InitDraw /\ [][NextDraw]_vars

\* the tasks that have run their finally block
settled(t) == {j \in 1..Len(t) : t[j] # "loading"}

\* C14: with the N tasks started together, whatever the order in which the
\* loads complete and whichever of them fail, loadedImages counts the settled
\* tasks, one increment per task; the export is initiated at most once, and it
\* has been initiated exactly when all N tasks have drawn or failed; nothing is
\* drawn and nothing exported after it.
ExportOnce ==
    /\ [](pc \in {"await", "done"} /\ Len(task) > 0 =>
             loadedImages = Cardinality(settled(task)))
    /\ [](exported <= 1)
    /\ [](exported = 1 <=> (Len(task) > 0 /\ settled(task) = 1..Len(task)))
    /\ [][loadedImages' # loadedImages =>
             /\ loadedImages' = loadedImages + 1
             /\ \E j \in 1..Len(task) :
                   /\ task[j] = "loading"
                   /\ settled(task') = settled(task) \cup {j}]_vars
    /\ [][exported' # exported =>
             exported' = exported + 1 /\ settled(task') = 1..Len(userPositions)]_vars
    /\ [][exported = 1 => task' = task /\ ring' = ring /\ exported' = exported]_vars

ExportOnceWitness ==
    /\ pc = "done"
    /\ exported = 1
    /\ Len(task) = MaxDrawItems
    /\ task[1] = "failed"
    /\ task[Len(task)] = "failed"
    /\ \E j \in 1..Len(task) : task[j] = "drawn"

====
